---- MODULE Spec2Model ----
(***************************************************************************)
(* State-machine model of racon's BamParser<Overlap> (src/src/             *)
(* bam_parser.cpp, declared in bam_parser.hpp): the constructor, reset()   *)
(* and parse(dst, max_bytes), over a stream of alignment records that the  *)
(* htslib decoder (hts_open / sam_hdr_read / sam_read1) delivers.          *)
(*                                                                         *)
(* The decoder and the Overlap constructor are external: the decoder is    *)
(* modelled by what the parser observes of it (a record per successful     *)
(* read, a negative status at end of file or at a damaged record), an      *)
(* Overlap by the argument list the parser passes to its constructor.      *)
(***************************************************************************)
EXTENDS Integers, Sequences, FiniteSets, TLC

VARIABLES
    file,               \* what is stored at path_: reference names and items
    file_,              \* htsFile* : [st, gen, pos]
    header_,            \* bam_hdr_t* : [st, gen, target_name]
    alignment_,         \* bam1_t* : the reused record buffer
    num_objects_read_,  \* std::atomic<uint64_t>
    is_eof_,            \* bool
    dst,                \* the caller's destination vector
    running,            \* FALSE once exit(1) has been called
    opens,              \* number of hts_open calls made so far
    mark,               \* Len(dst) at construction or at the last reset
    call,               \* the caller's view of the last call: what it was,
                        \* its argument, its return value and the reader
                        \* state it was issued in
    pc,                 \* where the thread inside parse() stands: "idle"
                        \* between calls, else "read", "append" or "count"
    frame,              \* the locals of the parse call under way:
                        \* max_bytes, current_bytes, num_objects and the
                        \* fields converted from the record in the buffer
    seen                \* what a second thread has read from
                        \* num_objects_read_ during the last parse call

vars == <<file, file_, header_, alignment_, num_objects_read_, is_eof_,
          dst, running, opens, mark, call, pc, frame, seen>>

-----------------------------------------------------------------------------
(* Bounds of the model *)

\* longest stream (number of items stored in the file)
MaxRecords == 3

\* how many times reset() may be called in one behaviour
MaxResets == 1

-----------------------------------------------------------------------------
(* Program constants *)

BAM_FUNMAP == 4
BAM_FSECONDARY == 256
BAM_FSUPPLEMENTARY == 2048

\* the fixed per-record overhead of the byte estimate
RecordOverhead == 100

\* the ASCII offset added to a raw Phred score
PhredOffset == 33

\* the "quality absent" sentinel
QualAbsent == 255

\* BAM_CIGAR_STR of htslib, indexed by operation code + 1
CigarOpChars == <<"M", "I", "D", "N", "S", "H", "P", "=", "X", "B">>

-----------------------------------------------------------------------------
(* Pure helpers of parse *)

\* flag & bit, for a single-bit mask
HasFlag(flag, bit) == (flag \div bit) % 2 = 1

\* the filter without its supplementary test
IsSkippedNoSupplementary(flag) ==
    \/ HasFlag(flag, BAM_FUNMAP)
    \/ HasFlag(flag, BAM_FSECONDARY)

\* the filter of parse: unmapped, secondary or supplementary records are skipped
IsSkipped(flag) ==
    \/ HasFlag(flag, BAM_FUNMAP)
    \/ HasFlag(flag, BAM_FSECONDARY)
    \/ HasFlag(flag, BAM_FSUPPLEMENTARY)

Digits == <<"0", "1", "2", "3", "4", "5", "6", "7", "8", "9">>

\* std::to_string of an unsigned value
RECURSIVE to_string(_)
to_string(n) ==
    IF n < 10 THEN Digits[n + 1]
    ELSE to_string(n \div 10) \o Digits[(n % 10) + 1]

\* the length taken with a shift one bit short
bam_cigar_oplenShift3(c) == c \div 8

\* bam_cigar_oplen and bam_cigar_opchr of a packed operation (len << 4 | op)
bam_cigar_oplen(c) == c \div 16
bam_cigar_opchr(c) ==
    IF (c % 16) < Len(CigarOpChars) THEN CigarOpChars[(c % 16) + 1] ELSE "?"

\* the loop that builds cigar_str
RECURSIVE CigarStr(_)
CigarStr(cigar) ==
    IF cigar = <<>> THEN ""
    ELSE CigarStr(SubSeq(cigar, 1, Len(cigar) - 1))
             \o to_string(bam_cigar_oplen(cigar[Len(cigar)]))
             \o bam_cigar_opchr(cigar[Len(cigar)])

\* quality_str built without the test for the sentinel
QualityStrNoSentinel(qual, sequence_length) ==
    [i \in 1..sequence_length |-> (qual[i] + PhredOffset) % 256]

\* quality_str: empty when the first raw byte is the sentinel, else one
\* character (as its code, a char being 8 bits wide) per sequence position.
\* With sequence_length = 0 the result is empty whatever qual[0] holds.
QualityStr(qual, sequence_length) ==
    IF sequence_length = 0 THEN <<>>
    ELSE IF qual[1] = QualAbsent THEN <<>>
    ELSE [i \in 1..sequence_length |-> (qual[i] + PhredOffset) % 256]

\* whether tid indexes the header's reference-name table
TidInRange(hdr, tid) == tid >= 0 /\ tid < Len(hdr.target_name)

\* what an out-of-range header_->target_name[tid] followed by strlen may do
\* (undefined behaviour): end the process, or yield whatever bytes lie there
LookupOutcomes == {"crash", "", "?!"}

\* header_->target_name[tid]; ub is the build's outcome for a lookup out of range
TargetName(hdr, tid, ub) ==
    IF TidInRange(hdr, tid) THEN hdr.target_name[tid + 1] ELSE ub

\* the decoder's position passed on as it is
TargetBeginZeroBased(pos) == pos

\* line 110: t_begin, the decoder's 0-based position made 1-based
TargetBegin(pos) == pos + 1

\* the argument list of new Overlap(...) built from the record in the buffer
MakeOverlap(a, hdr, ub) ==
    LET cigar_str   == CigarStr(a.cigar)
        quality_str == QualityStr(a.qual, a.l_qseq)
        t_name      == TargetName(hdr, a.tid, ub)
    IN  [ q_name             |-> a.qname,
          q_name_length      |-> a.l_qname - 1,
          flag               |-> a.flag,
          t_name             |-> t_name,
          t_name_length      |-> Len(t_name),
          t_begin            |-> TargetBegin(a.pos),
          mapping_quality    |-> a.mapq,
          cigar              |-> cigar_str,
          cigar_length       |-> Len(cigar_str),
          t_next_name        |-> "*",
          t_next_name_length |-> 1,
          t_next_begin       |-> 0,
          template_length    |-> 0,
          sequence           |-> "nullptr",
          sequence_length    |-> a.l_qseq,
          quality            |-> quality_str,
          quality_is_null    |-> quality_str = <<>>,
          quality_length     |-> Len(quality_str) ]

\* the summand without the fixed per-record overhead
RecordBytesNoOverhead(o) ==
    o.q_name_length + o.t_name_length + o.cigar_length
        + o.sequence_length + o.quality_length

\* the summand added to current_bytes for one appended Overlap
RecordBytes(o) ==
    o.q_name_length + o.t_name_length + o.cigar_length
        + o.sequence_length + o.quality_length + RecordOverhead

-----------------------------------------------------------------------------
(* The decoder, as the parser sees it *)

\* the decoder stepping over a damaged item, handing back an unmapped record
sam_read1PastDamage(items, pos) ==
    IF pos >= Len(items) THEN [status |-> -1]
    ELSE IF items[pos + 1].kind = "bad"
    THEN [status |-> 0, rec |-> [kind |-> "rec", flag |-> 4]]
    ELSE [status |-> 0, rec |-> items[pos + 1]]

\* sam_read1(file_, header_, alignment_) with the handle `pos` items into the
\* stream: a record and a status >= 0, or a negative status (end of file, or
\* the status of a damaged item) and no progress
sam_read1(items, pos) ==
    IF pos >= Len(items) THEN [status |-> -1]
    ELSE IF items[pos + 1].kind = "bad" THEN [status |-> items[pos + 1].status]
    ELSE [status |-> 0, rec |-> items[pos + 1]]

-----------------------------------------------------------------------------
(* parse(dst, max_bytes) as a function of the reader state.                *)
(* s holds the fields and locals the call works on: pos (the position of   *)
(* file_), alignment, dst, num_read (num_objects_read_), is_eof,           *)
(* current_bytes, num_objects, ret (the value returned) and crashed (the    *)
(* call ended the process instead of returning).                           *)

\* the early return reporting progress
EofReturnsTrue(s) == [s EXCEPT !.ret = TRUE]

\* line 86-88: the call on an exhausted reader
EofReturn(s) == [s EXCEPT !.ret = FALSE]

\* the loop exit reporting progress whatever was accepted
LoopExitReturnsTrue(s) == [s EXCEPT !.is_eof = TRUE, !.ret = TRUE]

\* the loop exit without the sticky flag
LoopExitStaysReady(s) == [s EXCEPT !.ret = (s.num_objects > 0)]

\* the loop exit taking the stream back to its start instead of marking it
\* exhausted
LoopExitRewinds(s) == [s EXCEPT !.pos = 0, !.ret = (s.num_objects > 0)]

\* the loop exit reporting no progress whatever was accepted
LoopExitReturnsFalse(s) == [s EXCEPT !.is_eof = TRUE, !.ret = FALSE]

\* line 167-168: the loop has ended on a negative status
LoopExit(s) == [s EXCEPT !.is_eof = TRUE, !.ret = (s.num_objects > 0)]

\* the Overlap put at the front of the destination
AcceptAtFront(s, o) ==
    [s EXCEPT !.dst = <<o>> \o @,
              !.num_objects = @ + 1,
              !.num_read = @ + 1,
              !.current_bytes = @ + RecordBytes(o)]

\* the Overlap stored over what the destination held
AcceptOverwrites(s, o) ==
    [s EXCEPT !.dst = <<o>>,
              !.num_objects = @ + 1,
              !.num_read = @ + 1,
              !.current_bytes = @ + RecordBytes(o)]

\* the lifetime counter set from the per-call counter
AcceptCountsPerCall(s, o) ==
    [s EXCEPT !.dst = Append(@, o),
              !.num_objects = @ + 1,
              !.num_read = s.num_objects + 1,
              !.current_bytes = @ + RecordBytes(o)]

\* line 140-160: append the Overlap, count it, add its estimated size
Accept(s, o) ==
    [s EXCEPT !.dst = Append(@, o),
              !.num_objects = @ + 1,
              !.num_read = @ + 1,
              !.current_bytes = @ + RecordBytes(o)]

\* the test with a budget of zero taken to mean "no limit"
BudgetReachedUnlessZero(current_bytes, max_bytes) ==
    max_bytes > 0 /\ current_bytes >= max_bytes

\* line 162: the test that ends a batch
BudgetReached(current_bytes, max_bytes) == current_bytes >= max_bytes

\* line 93-165: the while loop
RECURSIVE ParseLoop(_, _, _, _, _)
ParseLoop(s, items, hdr, max_bytes, ub) ==
    LET r == sam_read1(items, s.pos) IN
    IF r.status < 0 THEN LoopExit(s)
    ELSE
        LET s1 == [s EXCEPT !.pos = @ + 1, !.alignment = r.rec] IN
        IF IsSkipped(s1.alignment.flag)
        THEN ParseLoop(s1, items, hdr, max_bytes, ub)
        ELSE IF ~TidInRange(hdr, s1.alignment.tid) /\ ub = "crash"
        THEN [s1 EXCEPT !.crashed = TRUE]
        ELSE
            LET s2 == Accept(s1, MakeOverlap(s1.alignment, hdr, ub)) IN
            IF BudgetReached(s2.current_bytes, max_bytes)
            THEN [s2 EXCEPT !.ret = TRUE]
            ELSE ParseLoop(s2, items, hdr, max_bytes, ub)

\* line 83-169: the whole call
ParseCall(s, items, hdr, max_bytes, ub) ==
    LET s0 == [s EXCEPT !.current_bytes = 0, !.num_objects = 0] IN
    IF s.is_eof THEN EofReturn(s0)
    ELSE ParseLoop(s0, items, hdr, max_bytes, ub)

-----------------------------------------------------------------------------
(* Handles *)

NullFile   == [st |-> "null", gen |-> 0, pos |-> 0]
NullHeader == [st |-> "null", gen |-> 0, target_name |-> <<>>]
NullRecord == [kind |-> "null"]

\* hts_open(path_, "r"): a fresh handle at the start of the stream, or nullptr
hts_open(ok, gen) ==
    IF ok THEN [st |-> "open", gen |-> gen, pos |-> 0] ELSE NullFile

\* hts_close(fp): the handle is gone, the pointer keeps its value
hts_close(fp) == IF fp.st = "open" THEN [fp EXCEPT !.st = "closed"] ELSE fp

\* sam_hdr_read(fp): the header of the file the handle reads, or nullptr
sam_hdr_read(ok, fp, f) ==
    IF ok THEN [st |-> "valid", gen |-> fp.gen, target_name |-> f.target_name]
    ELSE NullHeader

\* bam_hdr_destroy(h)
bam_hdr_destroy(h) == IF h.st = "valid" THEN [h EXCEPT !.st = "destroyed"] ELSE h

\* bam_init1(): an empty record buffer, or nullptr
bam_init1(ok) == IF ok THEN [kind |-> "empty"] ELSE NullRecord

-----------------------------------------------------------------------------
(* The reader as a value: its fields and whether the process still runs *)

Reader == [file_              |-> file_,
           header_            |-> header_,
           alignment_         |-> alignment_,
           num_objects_read_  |-> num_objects_read_,
           is_eof_            |-> is_eof_,
           running            |-> running]

\* line 15-17: the member initialisers
Initialised ==
    [file_ |-> NullFile, header_ |-> NullHeader, alignment_ |-> NullRecord,
     num_objects_read_ |-> 0, is_eof_ |-> FALSE, running |-> TRUE]

\* what the environment may do to a constructor or reset call
Outcomes == {"ok", "open_failed", "header_failed", "alloc_failed"}

\* line 19-41: the constructor body
ConstructCall(r, f, gen, outcome) ==
    LET fp == hts_open(outcome # "open_failed", gen) IN
    IF fp.st = "null" THEN [r EXCEPT !.file_ = fp, !.running = FALSE]
    ELSE
        LET h == sam_hdr_read(outcome # "header_failed", fp, f) IN
        IF h.st = "null"
        THEN [r EXCEPT !.file_ = hts_close(fp), !.header_ = h, !.running = FALSE]
        ELSE
            LET a == bam_init1(outcome # "alloc_failed") IN
            IF a.kind = "null"
            THEN [r EXCEPT !.file_ = hts_close(fp),
                           !.header_ = bam_hdr_destroy(h),
                           !.alignment_ = a,
                           !.running = FALSE]
            ELSE [r EXCEPT !.file_ = fp, !.header_ = h, !.alignment_ = a]

\* the counter cleared, the sticky flag left as it was
ResetCountersKeepsEof(r) == [r EXCEPT !.num_objects_read_ = 0]

\* the flag cleared, the counter left as it was
ResetCountersKeepsCount(r) == [r EXCEPT !.is_eof_ = FALSE]

\* line 79-80: the counters after a reopen
ResetCounters(r) == [r EXCEPT !.num_objects_read_ = 0, !.is_eof_ = FALSE]

\* reset() reopening the file but keeping the header it had
ResetCallKeepsHeader(r, f, gen, outcome) ==
    LET fp == hts_open(outcome # "open_failed", gen) IN
    IF fp.st = "null" THEN [r EXCEPT !.file_ = fp, !.running = FALSE]
    ELSE ResetCounters([r EXCEPT !.file_ = fp])

\* line 55-81: reset()
ResetCall(r, f, gen, outcome) ==
    LET closed == hts_close(r.file_)
        fp     == hts_open(outcome # "open_failed", gen)
    IN
    IF fp.st = "null" THEN [r EXCEPT !.file_ = fp, !.running = FALSE]
    ELSE
        LET destroyed == bam_hdr_destroy(r.header_)
            h         == sam_hdr_read(outcome # "header_failed", fp, f)
        IN
        IF h.st = "null"
        THEN [r EXCEPT !.file_ = hts_close(fp), !.header_ = h, !.running = FALSE]
        ELSE ResetCounters([r EXCEPT !.file_ = fp, !.header_ = h])

\* parse(dst, max_bytes) on reader r with destination d: the reader and the
\* destination afterwards, and the value returned
ParseOn(r, f, d, max_bytes, ub) ==
    LET s == ParseCall([pos |-> r.file_.pos, alignment |-> r.alignment_,
                        dst |-> d, num_read |-> r.num_objects_read_,
                        is_eof |-> r.is_eof_, current_bytes |-> 0,
                        num_objects |-> 0, ret |-> FALSE, crashed |-> FALSE],
                       f.items, r.header_, max_bytes, ub)
    IN  [reader |-> [r EXCEPT !.file_.pos = s.pos,
                              !.alignment_ = s.alignment,
                              !.num_objects_read_ = s.num_read,
                              !.is_eof_ = s.is_eof,
                              !.running = ~s.crashed],
         dst |-> s.dst,
         ret |-> s.ret]

-----------------------------------------------------------------------------
(* Inputs *)

\* reference-name table of the header
TargetNames == <<"chr1", "chrMT">>

\* a primary mapped record with CIGAR 4M2I10M and qualities
RecA == [kind |-> "rec", flag |-> 0, tid |-> 0, pos |-> 99, mapq |-> 60,
         qname |-> "r1", l_qname |-> 3, cigar |-> <<64, 33, 160>>,
         l_qseq |-> 3, qual |-> <<33, 34, 35>>]

\* a primary mapped reverse-strand record, no CIGAR, qualities absent
RecB == [kind |-> "rec", flag |-> 16, tid |-> 1, pos |-> 0, mapq |-> 0,
         qname |-> "read2", l_qname |-> 6, cigar |-> <<>>,
         l_qseq |-> 2, qual |-> <<255, 255>>]

\* an unmapped record
RecU == [kind |-> "rec", flag |-> 4, tid |-> -1, pos |-> -1, mapq |-> 0,
         qname |-> "u", l_qname |-> 2, cigar |-> <<>>,
         l_qseq |-> 1, qual |-> <<30>>]

\* a secondary alignment
RecS == [kind |-> "rec", flag |-> 256, tid |-> 0, pos |-> 7, mapq |-> 3,
         qname |-> "r1", l_qname |-> 3, cigar |-> <<48>>,
         l_qseq |-> 0, qual |-> <<>>]

\* a supplementary reverse-strand alignment
RecX == [kind |-> "rec", flag |-> 2064, tid |-> 1, pos |-> 5, mapq |-> 9,
         qname |-> "r1", l_qname |-> 3, cigar |-> <<20, 32>>,
         l_qseq |-> 0, qual |-> <<>>]

\* a damaged item: the decoder answers it with a status below -1
BadItem == [kind |-> "bad", status |-> -2]

Pool == {RecA, RecB, RecU, RecS, RecX, BadItem}

Streams == UNION {[1..k -> Pool] : k \in 0..MaxRecords}

Files == {[target_name |-> TargetNames, items |-> s] : s \in Streams}

\* byte budgets a caller passes: zero; between the sizes of RecB (114) and
\* RecA (119); about two records (more than two RecB, less than RecA and
\* RecB together); and more than any stream of the model holds
Budgets == {0, 116, 230, 1000000}

\* the lookup outcomes that matter to a call: all of them when a record the
\* call may convert has a reference id outside the table, else any one
LookupChoices(r, f) ==
    IF \E i \in (r.file_.pos + 1)..Len(f.items) :
          /\ f.items[i].kind = "rec"
          /\ ~IsSkipped(f.items[i].flag)
          /\ ~TidInRange(r.header_, f.items[i].tid)
    THEN LookupOutcomes
    ELSE {"crash"}

-----------------------------------------------------------------------------
(* The state machine *)

NoCall == [op |-> "none", max_bytes |-> 0, ret |-> FALSE,
           eof0 |-> FALSE, pos0 |-> 0, len0 |-> 0, n0 |-> 0]

Install(r) ==
    /\ file_' = r.file_
    /\ header_' = r.header_
    /\ alignment_' = r.alignment_
    /\ num_objects_read_' = r.num_objects_read_
    /\ is_eof_' = r.is_eof_
    /\ running' = r.running

NoFrame == [max_bytes |-> 0, current_bytes |-> 0, num_objects |-> 0,
            converted |-> [kind |-> "null"]]

\* the object as the constructor's initialiser list leaves it, nothing called
Start ==
    /\ file_ = Initialised.file_
    /\ header_ = Initialised.header_
    /\ alignment_ = Initialised.alignment_
    /\ num_objects_read_ = Initialised.num_objects_read_
    /\ is_eof_ = Initialised.is_eof_
    /\ running = Initialised.running
    /\ dst = <<>>
    /\ opens = 0
    /\ mark = 0
    /\ call = NoCall
    /\ pc = "idle"
    /\ frame = NoFrame
    /\ seen = <<>>

Init == file \in Files /\ Start

\* BamParser(path)
Construct ==
    /\ running /\ call.op = "none" /\ pc = "idle"
    /\ \E outcome \in Outcomes :
           Install(ConstructCall(Reader, file, opens + 1, outcome))
    /\ opens' = opens + 1
    /\ mark' = Len(dst)
    /\ call' = [NoCall EXCEPT !.op = "ctor"]
    /\ seen' = <<>>
    /\ UNCHANGED <<file, dst, pc, frame>>

\* reset()
Reset ==
    /\ running /\ call.op # "none" /\ pc = "idle"
    /\ opens <= MaxResets
    /\ \E outcome \in Outcomes \ {"alloc_failed"} :
           Install(ResetCall(Reader, file, opens + 1, outcome))
    /\ opens' = opens + 1
    /\ mark' = Len(dst)
    /\ call' = [NoCall EXCEPT !.op = "reset", !.eof0 = is_eof_,
                              !.pos0 = file_.pos, !.len0 = Len(dst),
                              !.n0 = num_objects_read_]
    /\ seen' = <<>>
    /\ UNCHANGED <<file, dst, pc, frame>>

\* parse(dst, max_bytes)
Parse ==
    /\ running /\ call.op # "none" /\ pc = "idle"
    /\ \E max_bytes \in Budgets, ub \in LookupChoices(Reader, file) :
           LET p == ParseOn(Reader, file, dst, max_bytes, ub) IN
           /\ Install(p.reader)
           /\ dst' = p.dst
           /\ call' = [op |-> "parse", max_bytes |-> max_bytes, ret |-> p.ret,
                       eof0 |-> is_eof_, pos0 |-> file_.pos,
                       len0 |-> Len(dst), n0 |-> num_objects_read_]
    /\ seen' = <<>>
    /\ UNCHANGED <<file, opens, mark, pc, frame>>

Next == Construct \/ Reset \/ Parse

Spec == Init /\ [][Next]_vars

-----------------------------------------------------------------------------
(* Vocabulary of the properties *)

\* the Overlaps appended since construction or the last reset
Appended == SubSeq(dst, mark + 1, Len(dst))

\* the flag bits a record has set
FlagBits(flag) ==
    {b \in {1, 2, 4, 8, 16, 32, 64, 128, 256, 512, 1024, 2048} :
        (flag \div b) % 2 = 1}

\* a record the filter lets through: not unmapped, secondary or supplementary
Passes(item) ==
    /\ item.kind = "rec"
    /\ FlagBits(item.flag) \cap {4, 256, 2048} = {}

\* the items the decoder delivers: those before the first damaged one
RECURSIVE Delivered(_)
Delivered(items) ==
    IF items = <<>> \/ Head(items).kind = "bad" THEN <<>>
    ELSE <<Head(items)>> \o Delivered(Tail(items))

\* the records of a run of items that pass the filter, in order
PassingOf(items) == SelectSeq(items, Passes)

\* the step is a parse call / a reset call
ParseStep == call'.op = "parse"
ResetStep == call'.op = "reset"

\* the last call was a parse call that returned
Parsed == call.op = "parse" /\ running

-----------------------------------------------------------------------------
(* C1. Filtering.  Once parse calls have run the stream to its end (every  *)
(* item of the file has been read and end_of_stream is set), the Overlaps  *)
(* appended since construction or the last reset are in one-to-one         *)
(* correspondence with the records that have none of the unmapped,         *)
(* secondary and supplementary flags set: there are as many of them, and   *)
(* the k-th carries the name and the flags of the k-th such record.  A     *)
(* record with one of the three flags set has no Overlap.                  *)

StreamExhausted ==
    running /\ is_eof_ /\ file_.pos = Len(file.items)

C1_Filtering ==
    StreamExhausted =>
        LET kept == PassingOf(file.items) IN
        /\ Len(Appended) = Len(kept)
        /\ \A k \in 1..Len(kept) :
              /\ Appended[k].q_name = kept[k].qname
              /\ Appended[k].flag = kept[k].flag
        /\ \A k \in 1..Len(Appended) :
              FlagBits(Appended[k].flag) \cap {4, 256, 2048} = {}

\* a stream of three records, one filtered out between two that pass, read
\* to its end
C1_Witness ==
    /\ StreamExhausted
    /\ Len(file.items) = 3
    /\ Passes(file.items[1]) /\ ~Passes(file.items[2]) /\ Passes(file.items[3])
    /\ Len(Appended) = 2

-----------------------------------------------------------------------------
(* C2. Exhaustion idempotence.  A parse call issued when end_of_stream is  *)
(* set returns false, appends nothing, reads nothing (the stream position  *)
(* and the record buffer stay as they are) and leaves records_read_count   *)
(* and end_of_stream unchanged.                                            *)

C2_ExhaustionIdempotent ==
    [][ (ParseStep /\ is_eof_) =>
            /\ call'.ret = FALSE
            /\ dst' = dst
            /\ file_' = file_
            /\ alignment_' = alignment_
            /\ num_objects_read_' = num_objects_read_
            /\ is_eof_' = TRUE
            /\ running' ]_vars

\* a parse call was issued on an exhausted reader that had delivered records
C2_Witness ==
    /\ Parsed /\ call.eof0 /\ is_eof_
    /\ Len(Appended) > 0

-----------------------------------------------------------------------------
(* Vocabulary of the budget properties *)

\* the records that pass the filter among the items a reader at position pos
\* has still to be delivered
RestFrom(pos) ==
    PassingOf(Delivered(SubSeq(file.items, pos + 1, Len(file.items))))

\* the estimated size of a record, as parse adds it to its running total
CostOf(rec) == RecordBytes(MakeOverlap(rec, header_, ""))

RECURSIVE SumCost(_)
SumCost(recs) ==
    IF recs = <<>> THEN 0 ELSE CostOf(Head(recs)) + SumCost(Tail(recs))

\* the number of items up to and including the first one that passes the filter
RECURSIVE UpToFirstPassing(_)
UpToFirstPassing(items) ==
    IF items = <<>> THEN 0
    ELSE IF Passes(Head(items)) THEN 1
    ELSE 1 + UpToFirstPassing(Tail(items))

\* the last call was a parse call on a Ready reader, with a budget below the
\* size of the first record that passes the filter
SmallBudgetCall ==
    /\ Parsed /\ ~call.eof0
    /\ RestFrom(call.pos0) # <<>>
    /\ call.max_bytes < CostOf(RestFrom(call.pos0)[1])

\* what the next parse call, with budget mb, would append
NextBatch(mb) ==
    LET p == ParseOn(Reader, file, dst, mb, "") IN
    [out |-> SubSeq(p.dst, Len(dst) + 1, Len(p.dst)),
     ret |-> p.ret,
     eof |-> p.reader.is_eof_]

-----------------------------------------------------------------------------
(* C3. Budget semantics, as claimed: a parse call on a Ready reader with   *)
(* max_bytes below the size of the first record that passes the filter     *)
(* appends exactly one record, returns true, leaves end_of_stream false,   *)
(* and the next parse call has further data to deliver.                    *)

C3_Original ==
    SmallBudgetCall =>
        /\ Len(dst) = call.len0 + 1
        /\ call.ret = TRUE
        /\ is_eof_ = FALSE
        /\ \A mb \in Budgets : NextBatch(mb).out # <<>>

(* C3. Budget semantics, amended: such a call appends exactly one record,  *)
(* returns true and leaves end_of_stream false, with the stream positioned *)
(* just after that record; the next parse call delivers further data       *)
(* exactly when a later record passes the filter, and otherwise returns    *)
(* false and sets end_of_stream.                                           *)

C3_BudgetSemantics ==
    SmallBudgetCall =>
        /\ Len(dst) = call.len0 + 1
        /\ dst[Len(dst)].q_name = RestFrom(call.pos0)[1].qname
        /\ call.ret = TRUE
        /\ is_eof_ = FALSE
        /\ file_.pos = call.pos0 + UpToFirstPassing(
                           SubSeq(file.items, call.pos0 + 1, Len(file.items)))
        /\ \A mb \in Budgets :
              LET n == NextBatch(mb) IN
              /\ (n.out # <<>>) <=> (RestFrom(file_.pos) # <<>>)
              /\ (RestFrom(file_.pos) = <<>>) => (n.ret = FALSE /\ n.eof = TRUE)

\* a call with a non-zero budget below the size of the record it delivered,
\* with another passing record left in the stream
C3_Witness ==
    /\ SmallBudgetCall
    /\ call.max_bytes > 0
    /\ RestFrom(file_.pos) # <<>>
    /\ Len(dst) = call.len0 + 1

-----------------------------------------------------------------------------
(* C4. Exhaustion result.  A parse call on a Ready reader whose remaining  *)
(* passing records together stay below max_bytes appends them all, sets    *)
(* end_of_stream and returns true if there was at least one, false if      *)
(* there was none; and whenever a call on a Ready reader sets              *)
(* end_of_stream, it returns true exactly when it appended something.      *)

C4_ExhaustionResult ==
    (Parsed /\ ~call.eof0) =>
        /\ SumCost(RestFrom(call.pos0)) < call.max_bytes =>
              /\ is_eof_ = TRUE
              /\ Len(dst) = call.len0 + Len(RestFrom(call.pos0))
              /\ call.ret = (Len(RestFrom(call.pos0)) > 0)
        /\ is_eof_ => (call.ret = (Len(dst) > call.len0))

\* a second call that ran into the end of the stream after appending two
\* records whose sizes stayed below a finite budget
C4_Witness ==
    /\ Parsed /\ ~call.eof0 /\ is_eof_
    /\ call.pos0 > 0
    /\ call.max_bytes = 230
    /\ Len(dst) = call.len0 + 2
    /\ call.ret = TRUE

-----------------------------------------------------------------------------
(* C5. Reset restores the initial state.  Right after a reset that         *)
(* returned, wherever the reader stood before it, every sequence of up to  *)
(* ReplayCalls parse calls yields call by call the same return value, the  *)
(* same appended Overlaps in the same order, and the same                  *)
(* records_read_count and end_of_stream as the same sequence issued on a   *)
(* freshly constructed reader of the same file.                            *)

\* how many calls of a sequence are compared
ReplayCalls == 2

\* the reader a successful construction yields
Constructed == ConstructCall(Initialised, file, 1, "ok")

RECURSIVE SameRuns(_, _, _)
SameRuns(r1, r2, k) ==
    \/ k = 0
    \/ \A mb \in Budgets :
          LET p1 == ParseOn(r1, file, <<>>, mb, "")
              p2 == ParseOn(r2, file, <<>>, mb, "")
          IN  /\ p1.ret = p2.ret
              /\ p1.dst = p2.dst
              /\ p1.reader.num_objects_read_ = p2.reader.num_objects_read_
              /\ p1.reader.is_eof_ = p2.reader.is_eof_
              /\ p1.reader.running = p2.reader.running
              /\ SameRuns(p1.reader, p2.reader, k - 1)

C5_ResetRestores ==
    (call.op = "reset" /\ running) =>
        /\ num_objects_read_ = Constructed.num_objects_read_
        /\ is_eof_ = Constructed.is_eof_
        /\ SameRuns(Reader, Constructed, ReplayCalls)

\* a reset issued after exhaustion of a stream that had delivered records
C5_Witness ==
    /\ call.op = "reset" /\ running
    /\ call.eof0 /\ call.n0 > 0
    /\ RestFrom(0) # <<>>

-----------------------------------------------------------------------------
(* C6. Output order.  At every point the Overlaps appended since           *)
(* construction or the last reset are exactly the conversions, in file     *)
(* order, of the records that pass the filter among the items read so far; *)
(* so they are a prefix of the file's passing records, with none skipped,  *)
(* duplicated or reordered, whatever the batch boundaries were.            *)

Converted(recs) == [k \in 1..Len(recs) |-> MakeOverlap(recs[k], header_, "")]

IsPrefix(a, b) == Len(a) <= Len(b) /\ a = SubSeq(b, 1, Len(a))

C6_OutputOrder ==
    (running /\ call.op # "none") =>
        /\ Appended = Converted(PassingOf(SubSeq(file.items, 1, file_.pos)))
        /\ IsPrefix(Appended, Converted(PassingOf(file.items)))

\* a later batch appended after an earlier one, with a filtered record read
\* in between
C6_Witness ==
    /\ Parsed
    /\ call.len0 > mark
    /\ Len(dst) > call.len0
    /\ \E i \in 2..file_.pos : ~Passes(file.items[i]) /\ Passes(file.items[1])

-----------------------------------------------------------------------------
(* C7. Reader state machine.  end_of_stream moves only along the stated    *)
(* transitions: a parse on a Ready reader that reaches its budget leaves   *)
(* it Ready, one that does not reach it makes it Exhausted (and then the   *)
(* stream has nothing more to deliver); a parse on an Exhausted reader     *)
(* leaves it Exhausted; a reset makes the reader Ready; and nothing but a  *)
(* parse sets end_of_stream, nothing but a reset clears it.                *)

\* the size of what the step appended
RECURSIVE SumBytes(_)
SumBytes(os) ==
    IF os = <<>> THEN 0 ELSE RecordBytes(Head(os)) + SumBytes(Tail(os))

C7_StateMachine ==
    [][ LET batch == SubSeq(dst', Len(dst) + 1, Len(dst'))
            reached == batch # <<>> /\ SumBytes(batch) >= call'.max_bytes
        IN
        /\ (ParseStep /\ ~is_eof_ /\ reached) => ~is_eof_'
        /\ (ParseStep /\ ~is_eof_ /\ ~reached) =>
              (is_eof_' /\ sam_read1(file.items, file_'.pos).status < 0)
        /\ (ParseStep /\ is_eof_) => is_eof_'
        /\ (ResetStep /\ running') => ~is_eof_'
        /\ (~is_eof_ /\ is_eof_') => ParseStep
        /\ (is_eof_ /\ ~is_eof_') => ResetStep ]_vars

\* a reset has taken an Exhausted reader back to Ready
C7_Witness ==
    /\ call.op = "reset" /\ running
    /\ call.eof0 /\ ~is_eof_

-----------------------------------------------------------------------------
(* C8. The counter, as claimed: records_read_count never decreases from    *)
(* one observation to the next over the reader's lifetime.                 *)

C8_Original ==
    [][num_objects_read_' >= num_objects_read_]_vars

(* C8. The counter, amended: records_read_count never decreases except in  *)
(* a reset, which sets it to zero.                                         *)

C8_MonotonicBetweenResets ==
    [][ \/ num_objects_read_' >= num_objects_read_
        \/ ResetStep /\ num_objects_read_' = 0 ]_vars

\* a later parse call has raised a counter that earlier calls had raised
C8_Witness ==
    /\ Parsed
    /\ call.n0 > 0
    /\ num_objects_read_ > call.n0

-----------------------------------------------------------------------------
(* C9. Append-only frame.  A parse call leaves every element the           *)
(* destination held in place and unchanged, and changes nothing but the    *)
(* destination, records_read_count, the record buffer, the stream position *)
(* and end_of_stream: the file, the header, the handle and the process     *)
(* stay as they were.                                                      *)

C9_AppendOnlyFrame ==
    [][ ParseStep =>
            /\ IsPrefix(dst, dst')
            /\ file' = file
            /\ header_' = header_
            /\ file_'.st = file_.st /\ file_'.gen = file_.gen
            /\ running' = running ]_vars

\* a parse call appended to a destination that already held Overlaps
C9_Witness ==
    /\ Parsed
    /\ call.len0 > 0
    /\ Len(dst) > call.len0
    /\ call.max_bytes > 0

-----------------------------------------------------------------------------
(* C10. Stream validity.  While the process runs, the file handle and the  *)
(* header are both absent (before the constructor body) or both valid,     *)
(* the header being the one read through the current handle of the file;   *)
(* a reset that returns leaves a new handle and a new header, a reset that *)
(* fails ends the process.                                                 *)

StreamValid ==
    /\ file_.st = "open"
    /\ header_.st = "valid"
    /\ header_.gen = file_.gen
    /\ header_.target_name = file.target_name

StreamAbsent == file_.st = "null" /\ header_.st = "null"

C10_StreamValidity ==
    running =>
        /\ StreamValid \/ StreamAbsent
        /\ call.op # "none" => (StreamValid /\ file_.gen = opens)
        /\ call.op = "reset" => file_.gen > 1

\* a reset has returned with a second handle and its header
C10_Witness ==
    /\ call.op = "reset" /\ running
    /\ file_.gen = opens /\ header_.gen = opens /\ opens > 1
    /\ call.pos0 > 0

-----------------------------------------------------------------------------
(* Conversion of single records: a second specification, the same reader   *)
(* over files of one record whose CIGAR, qualities, position and mapping   *)
(* quality range over the cases of the field conversions.                  *)

\* longest CIGAR (number of operations)
MaxCigarOps == 3

\* CIGAR operations as (length, operation code) pairs, each with the text it
\* is written as: 4M, 2I, 10M, 123D and an operation code outside "MIDNSHP=XB"
CigarOps ==
    { [len |-> 4,   op |-> 0,  text |-> "4M"],
      [len |-> 2,   op |-> 1,  text |-> "2I"],
      [len |-> 10,  op |-> 0,  text |-> "10M"],
      [len |-> 123, op |-> 2,  text |-> "123D"],
      [len |-> 1,   op |-> 15, text |-> "1?"] }

\* the packed form of a pair: len << 4 | op
Packed(e) == e.len * 16 + e.op

CigarPairs == UNION {[1..k -> CigarOps] : k \in 0..MaxCigarOps}

PackCigar(pairs) == [i \in 1..Len(pairs) |-> Packed(pairs[i])]

\* raw quality arrays: plain scores, the sentinel first (alone, followed by
\* sentinels, followed by scores), the largest scores that stay below the
\* width of a char and the smallest that do not, a sentinel value further on
QualArrays ==
    { <<33, 34, 35>>, <<0>>, <<93, 40>>,
      <<255>>, <<255, 255>>, <<255, 40, 41>>,
      <<222, 30>>, <<30, 223>>, <<40, 255>>, <<254>>,
      <<>> }

\* 0-based positions (the last is the largest whose successor TLC can hold)
\* and mapping qualities
Positions == {-1, 0, 99, 2147483646}
MapQs == {0, 60, 255}

ConvRecords ==
    {[RecA EXCEPT !.cigar = PackCigar(c)] : c \in CigarPairs}
        \cup {[RecA EXCEPT !.qual = q, !.l_qseq = Len(q)] : q \in QualArrays}
        \cup {[RecA EXCEPT !.pos = p, !.mapq = m] : p \in Positions, m \in MapQs}

ConvFiles == {[target_name |-> TargetNames, items |-> <<r>>] : r \in ConvRecords}

InitConv == file \in ConvFiles /\ Start

SpecConv == InitConv /\ [][Next]_vars

\* the record the k-th Overlap appended since construction or the last reset
\* was made from
SourceOf(k) == PassingOf(SubSeq(file.items, 1, file_.pos))[k]

\* the pairs a packed CIGAR array stands for
PairsOf(cigar) ==
    [i \in 1..Len(cigar) |-> CHOOSE e \in CigarOps : Packed(e) = cigar[i]]

\* the pairs' texts one after the other, first to last
RECURSIVE TextOf(_)
TextOf(pairs) ==
    IF pairs = <<>> THEN "" ELSE Head(pairs).text \o TextOf(Tail(pairs))

-----------------------------------------------------------------------------
(* C11. CIGAR reconstruction.  The CIGAR text of every appended Overlap is *)
(* the concatenation, in order and without separators, of its record's     *)
(* (length, operation) pairs, each written as the decimal length followed  *)
(* by the operation character, and the length passed with it is the length *)
(* of that text; [(4,M),(2,I),(10,M)] gives "4M2I10M", no operations give  *)
(* the empty string.                                                       *)

C11_CigarText ==
    running =>
        \A k \in 1..Len(Appended) :
            LET r == SourceOf(k)
                o == Appended[k]
            IN  /\ o.cigar = TextOf(PairsOf(r.cigar))
                /\ o.cigar_length = Len(TextOf(PairsOf(r.cigar)))
                /\ r.cigar = <<64, 33, 160>> => o.cigar = "4M2I10M"
                /\ r.cigar = <<>> => (o.cigar = "" /\ o.cigar_length = 0)

\* an Overlap made from a three-operation CIGAR with a two- and a
\* three-digit length
C11_Witness ==
    /\ running /\ Len(Appended) = 1
    /\ SourceOf(1).cigar = <<160, 1970, 33>>
    /\ Appended[1].cigar = "10M123D2I"

-----------------------------------------------------------------------------
(* C12. Quality reconstruction, as claimed: the sequence length passed is  *)
(* the query-sequence length; if the first raw quality byte is 0xff the    *)
(* quality is absent with length zero; otherwise the quality string has    *)
(* the query-sequence length and its i-th character code is the i-th raw   *)
(* byte plus 33.                                                           *)

SentinelFirst(r) == r.l_qseq > 0 /\ r.qual[1] = 255

C12_Original ==
    running =>
        \A k \in 1..Len(Appended) :
            LET r == SourceOf(k)
                o == Appended[k]
            IN  /\ o.sequence_length = r.l_qseq
                /\ IF SentinelFirst(r)
                   THEN o.quality_is_null /\ o.quality_length = 0
                   ELSE /\ o.quality_length = r.l_qseq
                        /\ \A i \in 1..r.l_qseq : o.quality[i] = r.qual[i] + 33

(* C12. Quality reconstruction, amended: as claimed, except that the i-th  *)
(* character code is the i-th raw byte plus 33 reduced modulo 256 (a char  *)
(* is 8 bits wide), which is the raw byte plus 33 for raw bytes up to 222. *)

C12_Quality ==
    running =>
        \A k \in 1..Len(Appended) :
            LET r == SourceOf(k)
                o == Appended[k]
            IN  /\ o.sequence_length = r.l_qseq
                /\ IF SentinelFirst(r)
                   THEN o.quality_is_null /\ o.quality_length = 0
                   ELSE /\ o.quality_length = r.l_qseq
                        /\ o.quality_is_null = (r.l_qseq = 0)
                        /\ \A i \in 1..r.l_qseq :
                              /\ o.quality[i] \in 0..255
                              /\ (o.quality[i] - (r.qual[i] + 33)) % 256 = 0
                              /\ r.qual[i] <= 222 => o.quality[i] = r.qual[i] + 33

\* an Overlap whose quality string has a character that wrapped around
C12_Witness ==
    /\ running /\ Len(Appended) = 1
    /\ SourceOf(1).qual = <<30, 223>>
    /\ Appended[1].quality = <<63, 0>>

-----------------------------------------------------------------------------
(* C13. Position convention.  The target begin of every appended Overlap   *)
(* is its record's 0-based position plus one (99 gives 100), and its       *)
(* mapping quality is the record's, unchanged.                             *)

C13_Position ==
    running =>
        \A k \in 1..Len(Appended) :
            LET r == SourceOf(k)
                o == Appended[k]
            IN  /\ o.t_begin - r.pos = 1
                /\ r.pos = 99 => o.t_begin = 100
                /\ o.mapping_quality = r.mapq

\* an Overlap made from a record at the largest position, mapping quality 255
C13_Witness ==
    /\ running /\ Len(Appended) = 1
    /\ SourceOf(1).pos = 2147483646 /\ SourceOf(1).mapq = 255
    /\ Appended[1].t_begin = 2147483647

-----------------------------------------------------------------------------
(* C14. Batch boundary.  A parse call on a Ready reader counts from zero   *)
(* and only the records that pass the filter, each at query-name length +  *)
(* target-name length + CIGAR text length + sequence length + quality      *)
(* string length + 100; it stops, returning true, right after the first    *)
(* such record with which the total reaches max_bytes.  So what the call   *)
(* appends is the shortest run (of at least one record) of passing records *)
(* from the cursor whose costs sum to max_bytes or more, or all remaining  *)
(* passing records if no run does; the last item the call consumed is then *)
(* that record, never a filtered-out one.                                  *)

\* the cost of a record, from the record's own fields
ClaimedCost(rec) ==
    Len(rec.qname)
        + Len(file.target_name[rec.tid + 1])
        + Len(TextOf(PairsOf(rec.cigar)))
        + rec.l_qseq
        + (IF SentinelFirst(rec) THEN 0 ELSE rec.l_qseq)
        + 100

RECURSIVE ClaimedSum(_, _)
ClaimedSum(recs, n) ==
    IF n = 0 THEN 0 ELSE ClaimedSum(recs, n - 1) + ClaimedCost(recs[n])

\* the lengths of the runs from the cursor that reach the budget
ReachingRuns(recs, mb) == {n \in 1..Len(recs) : ClaimedSum(recs, n) >= mb}

ShortestRun(recs, mb) ==
    IF ReachingRuns(recs, mb) = {} THEN Len(recs)
    ELSE CHOOSE n \in ReachingRuns(recs, mb) :
            \A m \in ReachingRuns(recs, mb) : n <= m

C14_BatchBoundary ==
    (Parsed /\ ~call.eof0) =>
        LET rest == RestFrom(call.pos0)
            n    == ShortestRun(rest, call.max_bytes)
            out  == SubSeq(dst, call.len0 + 1, Len(dst))
            read == SubSeq(file.items, call.pos0 + 1, file_.pos)
        IN  /\ Len(out) = n
            /\ \A k \in 1..n : out[k].q_name = rest[k].qname
            /\ IF ReachingRuns(rest, call.max_bytes) # {}
               THEN /\ call.ret /\ ~is_eof_
                    /\ PassingOf(read) = SubSeq(rest, 1, n)
                    /\ Passes(read[Len(read)])
               ELSE is_eof_

\* a budget of 230 reached with the second of two passing records, RecA and
\* RecB, a filtered-out record between them
C14_Witness ==
    /\ Parsed /\ ~call.eof0 /\ call.max_bytes = 230 /\ call.pos0 = 0
    /\ Len(file.items) = 3
    /\ file.items[1] = RecA /\ ~Passes(file.items[2]) /\ file.items[3] = RecB
    /\ file.items[2].kind = "rec"
    /\ Len(dst) = call.len0 + 2
    /\ call.ret /\ ~is_eof_ /\ file_.pos = 3

-----------------------------------------------------------------------------
(* C16. The return value reports progress exactly.  For every budget, zero *)
(* included, a parse call returns true if and only if it appended at least *)
(* one Overlap; a call that returns false leaves the destination as it was *)
(* and end_of_stream true.                                                 *)

C16_ReturnReportsProgress ==
    [][ ParseStep =>
            /\ running'
            /\ call'.ret <=> Len(dst') > Len(dst)
            /\ ~call'.ret => (dst' = dst /\ is_eof_') ]_vars

\* a call on a Ready reader that had delivered records before, came upon
\* filtered-out records only, and returned false
C16_Witness ==
    /\ Parsed /\ ~call.eof0 /\ ~call.ret
    /\ file_.pos > call.pos0
    /\ call.len0 > mark /\ Len(dst) = call.len0
    /\ is_eof_

-----------------------------------------------------------------------------
(* C17. Counter accounting.  After any sequence of completed calls the     *)
(* value of records_read_count is the number of Overlaps appended since    *)
(* construction or the last reset, and a parse call raises it by exactly   *)
(* the number of Overlaps the call appended.                               *)

C17_CounterAccounting ==
    (running /\ call.op # "none") =>
        /\ num_objects_read_ = Len(dst) - mark
        /\ call.op = "parse" =>
              num_objects_read_ - call.n0 = Len(dst) - call.len0

\* after a reset that followed deliveries, a call that appended two Overlaps
C17_Witness ==
    /\ Parsed /\ mark > 0
    /\ call.n0 = 0 /\ num_objects_read_ = 2
    /\ Len(dst) = call.len0 + 2

-----------------------------------------------------------------------------
(* C19. A decoder failure is exhaustion.  A parse call whose read meets a  *)
(* negative status, that of a damaged record as well as the end of the     *)
(* file, sets end_of_stream, returns true or false by whether it appended  *)
(* anything, and raises no error; the reader never gets beyond a damaged   *)
(* item, so that the records after it are not delivered until a reset      *)
(* starts the stream again (and then not either).                          *)

\* the last call was a parse call on a Ready reader that did not stop on its
\* budget: its last read returned a negative status
MetNegativeStatus ==
    /\ Parsed /\ ~call.eof0
    /\ ReachingRuns(RestFrom(call.pos0), call.max_bytes) = {}

C19_FailureIsExhaustion ==
    /\ call.op = "parse" => running
    /\ running =>
          /\ file_.pos <= Len(Delivered(file.items))
          /\ Len(Appended) <= Len(PassingOf(Delivered(file.items)))
    /\ MetNegativeStatus =>
          /\ is_eof_
          /\ file_.pos = Len(Delivered(file.items))
          /\ sam_read1(file.items, file_.pos).status < 0
          /\ call.ret <=> Len(dst) > call.len0

\* a call that delivered a record and then met a damaged item, with a record
\* that passes the filter behind it
C19_Witness ==
    /\ MetNegativeStatus /\ call.ret /\ is_eof_
    /\ file_.pos = 1 /\ Len(file.items) = 3
    /\ file.items[2].kind = "bad" /\ Passes(file.items[3])
    /\ Len(Appended) = 1

-----------------------------------------------------------------------------
(* C18. Termination and progress.  A caller that, from construction or a   *)
(* reset on, keeps calling parse, with whatever budgets, gets false with    *)
(* end_of_stream set after at most A + 1 calls, A being the number of      *)
(* records of the stream that pass the filter.  In particular the call     *)
(* after one that returned true on reaching its budget with the last       *)
(* passing record returns false and sets end_of_stream.                    *)

Max(S) == CHOOSE x \in S : \A y \in S : y <= x

\* the largest number of parse calls, over the budgets of each, that reader r
\* takes until a call returns false with end_of_stream set; counting stops
\* when `fuel` calls have been made
RECURSIVE WorstCalls(_, _, _)
WorstCalls(r, d, fuel) ==
    IF fuel = 0 THEN 0
    ELSE
        LET outs == {ParseOn(r, file, d, mb, "") : mb \in Budgets} IN
        Max({ IF ~p.ret /\ p.reader.is_eof_ THEN 1
              ELSE 1 + WorstCalls(p.reader, p.dst, fuel - 1) : p \in outs })

\* a reader just constructed or reset
Fresh == running /\ call.op \in {"ctor", "reset"}

\* the last call returned true on its budget with the last passing record
BudgetOnLastRecord ==
    /\ Parsed /\ call.ret /\ ~is_eof_
    /\ RestFrom(file_.pos) = <<>>

C18_Termination ==
    /\ Fresh =>
          LET A == Len(PassingOf(file.items)) IN
          WorstCalls(Reader, dst, A + 2) <= A + 1
    /\ BudgetOnLastRecord =>
          \A mb \in Budgets :
              /\ ~NextBatch(mb).ret
              /\ NextBatch(mb).eof
              /\ NextBatch(mb).out = <<>>

\* every one of three passing records was delivered by a call of its own,
\* all three returning true: the fourth call is the first to return false
C18_Witness ==
    /\ BudgetOnLastRecord
    /\ Len(PassingOf(file.items)) = 3
    /\ Len(Appended) = 3 /\ call.len0 = Len(dst) - 1 /\ call.n0 = 2
    /\ call.max_bytes = 0
    /\ WorstCalls(Reader, dst, 2) = 1

-----------------------------------------------------------------------------
(* Reference ids outside the table: a third specification, the same reader *)
(* over streams that also hold records which pass the filter and whose     *)
(* reference id does not index the header's reference-name table.          *)

\* a record with no flag set and no reference (id -1)
RecN == [RecA EXCEPT !.tid = -1, !.qname = "n1"]

\* a record with no flag set and the id one past the last reference
RecH == [RecA EXCEPT !.tid = Len(TargetNames), !.qname = "h1"]

TidPool == {RecA, RecN, RecH}

TidFiles ==
    {[target_name |-> TargetNames, items |-> s] :
        s \in UNION {[1..k -> TidPool] : k \in 0..MaxRecords}}

InitTid == file \in TidFiles /\ Start

SpecTid == InitTid /\ [][Next]_vars

-----------------------------------------------------------------------------
(* C20. Target-name lookup in bounds, as claimed: every record that passes *)
(* the filter, and so reaches the lookup of its target name, has a         *)
(* reference id that indexes the header's reference-name table             *)
(* (0 <= id < number of references).                                       *)

C20_LookupInBounds ==
    \A i \in 1..file_.pos :
        Passes(file.items[i]) =>
            /\ file.items[i].tid >= 0
            /\ file.items[i].tid < Len(file.target_name)

-----------------------------------------------------------------------------
(* The parse call step by step: a fourth specification, in which the call  *)
(* is taken one statement group at a time and a second thread reads        *)
(* num_objects_read_ (a std::atomic) between the steps.  Only the caller's *)
(* thread calls the constructor, reset() and parse().                      *)

\* how many times the second thread reads the counter during one call
MaxObs == 2

\* the counter raised before the Overlap is appended
AcceptStepCountFirst(s, o, step) ==
    IF step = 1
    THEN [s EXCEPT !.num_read = @ + 1,
                   !.current_bytes = @ + RecordBytes(o)]
    ELSE [s EXCEPT !.dst = Append(@, o), !.num_objects = @ + 1]

\* the two halves of accepting a record, in the order of the code:
\* line 140-155 (emplace_back, ++num_objects), then line 156-160
\* (++num_objects_read_, current_bytes += ...)
AcceptStep(s, o, step) ==
    IF step = 1
    THEN [s EXCEPT !.dst = Append(@, o), !.num_objects = @ + 1]
    ELSE [s EXCEPT !.num_read = @ + 1,
                   !.current_bytes = @ + RecordBytes(o)]

\* the fields and locals the steps work on, as ParseLoop has them
Working ==
    [pos |-> file_.pos, alignment |-> alignment_, dst |-> dst,
     num_read |-> num_objects_read_, is_eof |-> is_eof_,
     current_bytes |-> frame.current_bytes,
     num_objects |-> frame.num_objects, ret |-> FALSE, crashed |-> FALSE]

\* store s back, keep the converted fields o; the call goes on at `at`
GoOn(s, o, at) ==
    /\ file_' = [file_ EXCEPT !.pos = s.pos]
    /\ alignment_' = s.alignment
    /\ dst' = s.dst
    /\ num_objects_read_' = s.num_read
    /\ is_eof_' = s.is_eof
    /\ frame' = [frame EXCEPT !.current_bytes = s.current_bytes,
                              !.num_objects = s.num_objects,
                              !.converted = o]
    /\ pc' = at
    /\ UNCHANGED <<call, running>>

\* store s back; the call returns s.ret
Return(s, c) ==
    /\ file_' = [file_ EXCEPT !.pos = s.pos]
    /\ alignment_' = s.alignment
    /\ dst' = s.dst
    /\ num_objects_read_' = s.num_read
    /\ is_eof_' = s.is_eof
    /\ frame' = NoFrame
    /\ pc' = "idle"
    /\ call' = [c EXCEPT !.op = "parse", !.ret = s.ret]
    /\ UNCHANGED running

\* line 83-91: the call is entered
ParseEnter ==
    /\ running /\ call.op # "none" /\ pc = "idle"
    /\ \E max_bytes \in Budgets :
          LET c == [op |-> "parsing", max_bytes |-> max_bytes, ret |-> FALSE,
                    eof0 |-> is_eof_, pos0 |-> file_.pos,
                    len0 |-> Len(dst), n0 |-> num_objects_read_]
          IN  IF is_eof_
              THEN Return(EofReturn(Working), c)
              ELSE /\ call' = c
                   /\ frame' = [NoFrame EXCEPT !.max_bytes = max_bytes]
                   /\ pc' = "read"
                   /\ UNCHANGED <<file_, alignment_, dst, num_objects_read_,
                                  is_eof_, running>>
    /\ seen' = <<>>
    /\ UNCHANGED <<file, header_, opens, mark>>

\* line 93-99 and 167-168: one sam_read1 and the flag filter
ReadStep ==
    /\ running /\ pc = "read"
    /\ LET r == sam_read1(file.items, file_.pos) IN
       IF r.status < 0 THEN Return(LoopExit(Working), call)
       ELSE
           LET s1 == [Working EXCEPT !.pos = @ + 1, !.alignment = r.rec] IN
           GoOn(s1, frame.converted,
                IF IsSkipped(s1.alignment.flag) THEN "read" ELSE "append")
    /\ UNCHANGED <<file, header_, opens, mark, seen>>

\* line 101-155: the record is converted and the Overlap appended
AppendStep ==
    /\ running /\ pc = "append"
    /\ \E ub \in LookupChoices(Reader, file) :
          IF ~TidInRange(header_, alignment_.tid) /\ ub = "crash"
          THEN /\ running' = FALSE
               /\ pc' = "idle"
               /\ UNCHANGED <<file_, alignment_, dst, num_objects_read_,
                              is_eof_, frame, call>>
          ELSE LET o == MakeOverlap(alignment_, header_, ub) IN
               GoOn(AcceptStep(Working, o, 1), o, "count")
    /\ UNCHANGED <<file, header_, opens, mark, seen>>

\* line 156-164: the counter, the running total and the test of the budget
CountStep ==
    /\ running /\ pc = "count"
    /\ LET s2 == AcceptStep(Working, frame.converted, 2) IN
       IF BudgetReached(s2.current_bytes, frame.max_bytes)
       THEN Return([s2 EXCEPT !.ret = TRUE], call)
       ELSE GoOn(s2, frame.converted, "read")
    /\ UNCHANGED <<file, header_, opens, mark, seen>>

\* the second thread loads num_objects_read_ while the call is under way
Observe ==
    /\ running /\ pc # "idle"
    /\ Len(seen) < MaxObs
    /\ seen' = Append(seen, [v |-> num_objects_read_,
                             appended |-> Len(dst) - mark])
    /\ UNCHANGED <<file, file_, header_, alignment_, num_objects_read_,
                   is_eof_, dst, running, opens, mark, call, pc, frame>>

StepFiles ==
    {[target_name |-> TargetNames, items |-> s] :
        s \in UNION {[1..k -> {RecA, RecB, RecU}] : k \in 0..MaxRecords}}

InitSteps == file \in StepFiles /\ Start

NextSteps ==
    \/ Construct
    \/ Reset
    \/ ParseEnter
    \/ ReadStep
    \/ AppendStep
    \/ CountStep
    \/ Observe

SpecSteps == InitSteps /\ [][NextSteps]_vars

-----------------------------------------------------------------------------
(* C15. Concurrent counter read.  Every value a second thread reads from   *)
(* records_read_count while a parse call is under way lies between the     *)
(* counter's value when the call was entered and its value when the call   *)
(* returns; successive reads never decrease; and no value read exceeds the *)
(* number of Overlaps already appended, at the time of the read, since     *)
(* construction or the last reset.                                         *)

C15_ConcurrentRead ==
    \A i \in 1..Len(seen) :
        /\ call.n0 <= seen[i].v
        /\ seen[i].v <= num_objects_read_
        /\ seen[i].v <= seen[i].appended
        /\ i > 1 => seen[i - 1].v <= seen[i].v

\* a call that has returned, having appended two Overlaps, during which the
\* counter was read once between an append and its count and once later
C15_Witness ==
    /\ Parsed /\ pc = "idle" /\ Len(seen) = 2
    /\ num_objects_read_ = call.n0 + 2
    /\ seen[1].v = call.n0 /\ seen[1].appended = seen[1].v + 1
    /\ seen[2].v = call.n0 + 1

====
